---- MODULE Spec2Model ----
(***************************************************************************)
(* A model of the e-commerce analytics pipeline: the synthetic data        *)
(* generator (data_generator.py), the extract/transform/load pipeline      *)
(* (src/etl_pipeline.py), the SQL reporting layer (src/sql_analysis.py)    *)
(* and the store access of the visualiser (src/visualisation.py).          *)
(*                                                                         *)
(* Money is counted in mills (1/1000 of a currency unit), so a value with  *)
(* two decimals is a multiple of 10 and rounding to two decimals is a real *)
(* operation.  Arithmetic is exact: the representation error of binary     *)
(* floating point is outside the model.  Dates are day ordinals counted    *)
(* from 2023-01-01 and stay inside 2023.                                   *)
(***************************************************************************)
EXTENDS Integers, Sequences, FiniteSets, TLC

\* ------------------------------------------------------------------ values

\* A table held in memory (a DataFrame) or in the store: a table that is not
\* there (None in memory, no such table in the store) has here = FALSE.
Table(rows) == [here |-> TRUE, rows |-> rows]
None == [here |-> FALSE, rows |-> <<>>]
Absent == [here |-> FALSE, rows |-> <<>>]

TableNames == {"customers", "products", "orders"}
FileNames == {"customers", "orders", "products"}

RECURSIVE SumSeq(_)
SumSeq(s) == IF s = <<>> THEN 0 ELSE Head(s) + SumSeq(Tail(s))

MapRows(s, F(_)) == [i \in 1..Len(s) |-> F(s[i])]

\* x / y rounded to the nearest integer, ties away from zero (SQLite ROUND),
\* for x >= 0 and y > 0.
RoundHalfAway(x, y) == (2 * x + y) \div (2 * y)

\* x / y rounded to the nearest integer, ties to the even neighbour (Python
\* round, numpy round), for x >= 0 and y > 0.
RoundHalfEven(x, y) ==
    LET q == x \div y
        r == x % y
    IN  IF 2 * r < y THEN q
        ELSE IF 2 * r > y THEN q + 1
        ELSE IF q % 2 = 0 THEN q ELSE q + 1

\* A money value in mills, given as the fraction x / y mills, rounded to two
\* decimals: the nearest multiple of 10 mills.
PyRound2(x, y) == 10 * RoundHalfEven(x, 10 * y)
SqlRound2(x, y) == 10 * RoundHalfAway(x, 10 * y)

\* ------------------------------------------------------------------- dates

\* First day ordinal of each month of 2023.
MonthStart == <<0, 31, 59, 90, 120, 151, 181, 212, 243, 273, 304, 334>>

MonthOf(day) == CHOOSE m \in 1..12 :
    /\ MonthStart[m] <= day
    /\ (m = 12 \/ day < MonthStart[m + 1])

\* A missing cell: NaN in a column of numbers, and in a column of dates the
\* missing text the file reader gives and the NaT that to_datetime makes of it.
NaN == -1
NullText == [repr |-> "null", day |-> 0]
NaT == [repr |-> "NaT", day |-> 0]

IsNullDate(d) == d.repr \in {"null", "NaT"}

\* pd.to_datetime: a date string or a stored timestamp text becomes a
\* timestamp, a missing cell becomes NaT.
to_datetime(d) == IF IsNullDate(d) THEN NaT ELSE [repr |-> "timestamp", day |-> d.day]

\* DataFrame.to_sql writes a timestamp column as text 'YYYY-MM-DD HH:MM:SS';
\* a string column is written as it is.
SqlDate(d) == IF d.repr = "timestamp" THEN [repr |-> "timestamp_text", day |-> d.day] ELSE d

CsvDate(day) == [repr |-> "date_text", day |-> day]

\* ------------------------------------------------- the files on disk (Spec)

\* The rows the generator wrote, as read back from the files: dates are text.
CustomersFile == <<
    [customer_id |-> 1, signup_date |-> CsvDate(0), location |-> "London",
     customer_segment |-> "Premium"],
    [customer_id |-> 2, signup_date |-> CsvDate(1), location |-> "Manchester",
     customer_segment |-> "Basic"] >>

ProductsFile == <<
    [product_id |-> 1, price |-> 20000, cost |-> 12000],
    [product_id |-> 2, price |-> 10010, cost |-> 6000] >>

OrdersFile == <<
    [order_id |-> 1, customer_id |-> 1, order_date |-> CsvDate(30),
     total_amount |-> 40000, status |-> "Completed"],
    [order_id |-> 2, customer_id |-> 1, order_date |-> CsvDate(31),
     total_amount |-> 10010, status |-> "Pending"] >>

\* What the three files hold after the generator script has run.
GeneratedFiles == [customers |-> CustomersFile, orders |-> OrdersFile,
                   products |-> ProductsFile]

\* The wall-clock days datetime.now() may return during transform_data.
NowDays == {400, 401}


\* ------------------------------------------------- the generator (pure)

\* The values the random draws of the generator range over in the model.
LocationDraws == {"London", "Manchester"}
SegmentDraws == {"Premium"}
CategoryDraws == {"Books"}
BasePriceDraws == {10004, 10008}
DateDraws == {30, 31}

\* The counts the generator script asks for.
NumCustomers == 2
NumProducts == 2
NumOrders == 2

\* np.random.choice([1, 2, 3, 4, 5], p=...)
NumItemsChoices == 1..5
\* np.random.randint(1, 4)
Quantities == 1..3
Statuses == {"Completed", "Pending", "Cancelled"}

Timestamp(day) == [repr |-> "timestamp", day |-> day]

\* generate_customers(n): identifiers 1..n, one signup day after the other
\* from 2023-01-01, location and segment drawn for each row.
generate_customers(n) ==
    {[i \in 1..n |-> [customer_id |-> i, signup_date |-> Timestamp(i - 1),
                      location |-> loc[i], customer_segment |-> seg[i]]]
     : loc \in [1..n -> LocationDraws], seg \in [1..n -> SegmentDraws]}

\* generate_products(n): identifiers 1..n; price is the base price rounded to
\* two decimals and cost is 0.6 times the base price rounded to two decimals.
generate_products(n) ==
    {[i \in 1..n |-> [product_id |-> i, category |-> cat[i],
                      price |-> PyRound2(base[i], 1),
                      cost |-> PyRound2(base[i] * 6, 10)]]
     : base \in [1..n -> BasePriceDraws], cat \in [1..n -> CategoryDraws]}

\* A sample of k identifiers in which an identifier may come twice.
ChoiceWithReplacement(ids, k) == [1..k -> ids]

\* np.random.choice(ids, k, replace=False): k distinct identifiers in some
\* order; there is none when k exceeds the number of identifiers (ValueError).
ChoiceWithoutReplacement(ids, k) ==
    {f \in [1..k -> ids] : \A i, j \in 1..k : i # j => f[i] # f[j]}

\* products[products['product_id'] == product_id]['price'].iloc[0]
PriceOf(prods, product_id) ==
    LET m == SelectSeq(prods, LAMBDA p : p.product_id = product_id)
    IN  m[1].price

\* The loop over the selected products: total_amount += price * quantity.
RECURSIVE Accumulate(_, _, _)
Accumulate(prods, items, total) ==
    IF items = <<>> THEN total
    ELSE Accumulate(prods, Tail(items),
                    total + PriceOf(prods, Head(items).product_id) * Head(items).quantity)

\* The line items of an order: the selected products, each with its quantity.
LineItems(sel, qty) == [k \in 1..Len(sel) |-> [product_id |-> sel[k], quantity |-> qty[k]]]

\* One pass of the loop of generate_orders(customers, products, n): the orders
\* the draws of pass i may append, each with the line items it was made from.
generate_order(custs, prods, i) ==
    LET ids == {prods[k].product_id : k \in 1..Len(prods)}
        samples == UNION {ChoiceWithoutReplacement(ids, k) : k \in NumItemsChoices}
        items == UNION {{LineItems(sel, qty) : qty \in [1..Len(sel) -> Quantities]}
                        : sel \in samples}
    IN  {[order_id |-> i, customer_id |-> custs[c].customer_id,
          order_date |-> Timestamp(day),
          total_amount |-> PyRound2(Accumulate(prods, it, 0), 1),
          status |-> st,
          items |-> it]
         : c \in 1..Len(custs), day \in DateDraws, st \in Statuses, it \in items}

\* Whether a pass of the loop may raise: the drawn number of items may exceed
\* the number of products.
generate_order_raises(prods) == \E k \in NumItemsChoices : k > Len(prods)

\* The record generate_orders appends for an order: the line items are not
\* part of it.
OrderRow(o) == [order_id |-> o.order_id, customer_id |-> o.customer_id,
                order_date |-> o.order_date, total_amount |-> o.total_amount,
                status |-> o.status]

DateColumns == {"signup_date", "order_date"}

\* One line of DataFrame.to_csv(index=False): a timestamp at midnight is
\* written as the text of its date, the other cells as they are.
CsvRow(r) == [k \in DOMAIN r |-> IF k \in DateColumns THEN CsvDate(r[k].day) ELSE r[k]]

\* A to_csv that also writes the index as a first column.
to_csv_with_index(rows) == [i \in 1..Len(rows) |-> [index |-> i - 1] @@ CsvRow(rows[i])]

\* DataFrame.to_csv(path, index=False)
to_csv(rows) == [i \in 1..Len(rows) |-> CsvRow(rows[i])]

\* DataFrame.to_json(path, orient='records'): one record for each row; the
\* products table has numbers and text only.
to_json(rows) == rows

\* The number of orders in the table the script saves in SpecRoundTrip.
SavedOrders == 1

\* The tables generate_orders(custs, prods, n) may return, of which
\* SpecRoundTrip takes those whose orders have one line item, fall on the
\* first of the drawn days and are completed.
OrderFrames(custs, prods, n) ==
    LET first == CHOOSE d \in DateDraws : \A e \in DateDraws : d <= e
        pass == {OrderRow(o) : o \in {x \in generate_order(custs, prods, 0) :
                                         /\ Len(x.items) = 1
                                         /\ x.order_date.day = first
                                         /\ x.status = "Completed"}}
    IN  {[i \in 1..n |-> [f[i] EXCEPT !.order_id = i]] : f \in [1..n -> pass]}

\* ------------------------------------------------ ECommerceETL (pure parts)

NewETL == [customers |-> None, products |-> None, orders |-> None]

\* pd.read_csv with its defaults: numbers are parsed, every other cell stays
\* the text the file holds, a date among them.
read_csv(text) == text

\* json.load and pd.DataFrame: one row for each record of the file.
read_json(text) == text

\* What reading a file gives: the file's rows, or nothing when the read raises.
ReadFile(f, d, name) ==
    IF f[name] # "ok" THEN None
    ELSE IF name = "products" THEN Table(read_json(d[name]))
    ELSE Table(read_csv(d[name]))

\* extract_data: customers, then orders, then products; each field is assigned
\* as soon as its file is read, and the first failing read raises.
extract_data(f, d, e) ==
    LET c == ReadFile(f, d, "customers")
        o == ReadFile(f, d, "orders")
        p == ReadFile(f, d, "products")
        e1 == [e EXCEPT !.customers = c]
        e2 == [e1 EXCEPT !.orders = o]
        e3 == [e2 EXCEPT !.products = p]
    IN  IF c = None THEN [etl |-> e, raised |-> TRUE]
        ELSE IF o = None THEN [etl |-> e1, raised |-> TRUE]
        ELSE IF p = None THEN [etl |-> e2, raised |-> TRUE]
        ELSE [etl |-> e3, raised |-> FALSE]

\* days_since_signup is NaN where the signup date is missing.
TransformCustomer(now, r) ==
    [signup_date |-> to_datetime(r.signup_date),
     days_since_signup |-> IF IsNullDate(r.signup_date) THEN NaN
                           ELSE now - r.signup_date.day] @@ r

\* Where the order date is missing, order_month is the text 'NaT' (written
\* <<0, 0>>) and order_year is NaN.
TransformOrder(r) ==
    [order_date |-> to_datetime(r.order_date),
     order_month |-> IF IsNullDate(r.order_date) THEN <<0, 0>>
                     ELSE <<2023, MonthOf(r.order_date.day)>>,
     order_year |-> IF IsNullDate(r.order_date) THEN NaN ELSE 2023] @@ r

\* profit_margin in hundredths of a percent: (price - cost) / price * 100,
\* rounded to two decimals; NaN where the price or the cost is missing.
TransformProduct(r) ==
    [profit_margin |-> IF r.price = NaN \/ r.cost = NaN THEN NaN
                       ELSE RoundHalfEven((r.price - r.cost) * 10000, r.price)] @@ r

\* isnull() of a cell; the text 'NaT' of order_month is not a missing value.
IsNull(k, v) ==
    IF k \in DateColumns THEN IsNullDate(v)
    ELSE IF k \in {"location", "customer_segment", "status", "category", "order_month"}
    THEN FALSE
    ELSE v = NaN

\* df.isnull().sum().sum(): the number of missing cells of a table.
MissingCells(rows) ==
    SumSeq([i \in 1..Len(rows) |->
               Cardinality({k \in DOMAIN rows[i] : IsNull(k, rows[i][k])})])

\* df.duplicated().sum(): the number of rows equal to an earlier row.
Duplicates(rows) == Len(rows) - Cardinality({rows[i] : i \in 1..Len(rows)})

\* _validate_data: the warnings it logs; it changes nothing.
validate_data(e) ==
    {w \in {"customers_missing", "products_missing", "orders_missing", "customer_dupes"} :
        \/ w = "customers_missing" /\ MissingCells(e.customers.rows) > 0
        \/ w = "products_missing" /\ MissingCells(e.products.rows) > 0
        \/ w = "orders_missing" /\ MissingCells(e.orders.rows) > 0
        \/ w = "customer_dupes" /\ Duplicates(e.customers.rows) > 0}

\* pandas drop_duplicates: the rows without those equal to an earlier row.
DropDuplicates(rows) ==
    LET keep == {i \in 1..Len(rows) : \A j \in 1..(i - 1) : rows[j] # rows[i]}
        nth[k \in 1..Cardinality(keep)] ==
            CHOOSE i \in keep : Cardinality({j \in keep : j < i}) = k - 1
    IN  [k \in 1..Cardinality(keep) |-> rows[nth[k]]]

\* pandas dropna: the rows without a missing cell.
DropNa(rows) == SelectSeq(rows, LAMBDA r : \A k \in DOMAIN r : ~IsNull(k, r[k]))

\* A transform_data that cleans what _validate_data finds: duplicate customers
\* and rows with missing cells are dropped.
transform_data_cleaning(e, now) ==
    LET e1 == [e EXCEPT !.customers.rows =
                  DropDuplicates(MapRows(@, LAMBDA r : TransformCustomer(now, r)))]
        e2 == [e1 EXCEPT !.orders.rows = DropNa(MapRows(@, TransformOrder))]
        e3 == [e2 EXCEPT !.products.rows = MapRows(@, TransformProduct)]
    IN  IF e.customers = None THEN [etl |-> e, raised |-> TRUE, warnings |-> {}]
        ELSE IF e.orders = None THEN [etl |-> e1, raised |-> TRUE, warnings |-> {}]
        ELSE IF e.products = None THEN [etl |-> e2, raised |-> TRUE, warnings |-> {}]
        ELSE [etl |-> e3, raised |-> FALSE, warnings |-> validate_data(e3)]

\* transform_data: customers, then orders, then products, each table rewritten
\* in place, then _validate_data; a table that is None raises at its first
\* statement, after the tables before it were rewritten.
transform_data(e, now) ==
    LET e1 == [e EXCEPT !.customers.rows = MapRows(@, LAMBDA r : TransformCustomer(now, r))]
        e2 == [e1 EXCEPT !.orders.rows = MapRows(@, TransformOrder)]
        e3 == [e2 EXCEPT !.products.rows = MapRows(@, TransformProduct)]
    IN  IF e.customers = None THEN [etl |-> e, raised |-> TRUE, warnings |-> {}]
        ELSE IF e.orders = None THEN [etl |-> e1, raised |-> TRUE, warnings |-> {}]
        ELSE IF e.products = None THEN [etl |-> e2, raised |-> TRUE, warnings |-> {}]
        ELSE [etl |-> e3, raised |-> FALSE, warnings |-> validate_data(e3)]

\* ---------------------------------------------------- the relational store

EmptyStore == [customers |-> Absent, products |-> Absent, orders |-> Absent, indexes |-> {}]

\* A row as DataFrame.to_sql writes it: timestamps become text.
SqlRow(r) == [k \in DOMAIN r |->
    IF k \in {"signup_date", "order_date"} THEN SqlDate(r[k]) ELSE r[k]]

\* DROP TABLE removes the table and every index defined on it.
DropTable(store, name) ==
    [store EXCEPT ![name] = Absent,
                  !.indexes = {ix \in store.indexes : ix.tbl # name}]

\* to_sql with if_exists='append': the rows are added to the table that exists.
to_sql_append(store, name, frame) ==
    [store EXCEPT ![name] = Table(store[name].rows \o MapRows(frame.rows, SqlRow))]

\* to_sql(name, conn, if_exists='replace', index=False): the table is dropped
\* when it exists, created again and filled with the rows of the frame.
to_sql(store, name, frame) ==
    [DropTable(store, name) EXCEPT ![name] = Table(MapRows(frame.rows, SqlRow))]

\* An index creation that is skipped when the table has any index already.
CreateIndexIfTableHasNone(store, name, tbl, col) ==
    IF \E ix \in store.indexes : ix.tbl = tbl THEN store
    ELSE [store EXCEPT !.indexes = @ \cup {[name |-> name, tbl |-> tbl, col |-> col]}]

\* CREATE INDEX IF NOT EXISTS name ON tbl(col): nothing happens when an index
\* of that name exists.
CreateIndexIfNotExists(store, name, tbl, col) ==
    IF \E ix \in store.indexes : ix.name = name THEN store
    ELSE [store EXCEPT !.indexes = @ \cup {[name |-> name, tbl |-> tbl, col |-> col]}]

CreateIndexes(store) ==
    LET s1 == CreateIndexIfNotExists(store, "idx_customer_id", "customers", "customer_id")
        s2 == CreateIndexIfNotExists(s1, "idx_product_id", "products", "product_id")
        s3 == CreateIndexIfNotExists(s2, "idx_order_date", "orders", "order_date")
    IN  CreateIndexIfNotExists(s3, "idx_order_customer", "orders", "customer_id")

\* The failures of the store itself that an operation may meet.
LoadFaults == {"none", "connect"}

\* load_data: connect, write customers, products and orders, create the four
\* indexes, commit, close.  A failure raises from where it happens: what was
\* written stays written, and conn.close() is not reached, so a connection
\* that was opened stays open.  open is the number of connections the call
\* leaves open.
load_data(e, store, fault) ==
    LET s1 == to_sql(store, "customers", e.customers)
        s2 == to_sql(s1, "products", e.products)
        s3 == to_sql(s2, "orders", e.orders)
    IN  IF fault = "connect" THEN [db |-> store, open |-> 0, raised |-> TRUE]
        ELSE IF e.customers = None THEN [db |-> store, open |-> 1, raised |-> TRUE]
        ELSE IF e.products = None THEN [db |-> s1, open |-> 1, raised |-> TRUE]
        ELSE IF e.orders = None THEN [db |-> s2, open |-> 1, raised |-> TRUE]
        ELSE [db |-> CreateIndexes(s3), open |-> 0, raised |-> FALSE]

\* ------------------------------------------------- SQLAnalyzer (the SQL)

Amounts(rows) == MapRows(rows, LAMBDA r : r.total_amount)

Completed(o) == o.status = "Completed"

\* The columns of a stored table, read off its rows; an empty table is taken
\* to have every column.
HasColumns(store, name, cols) ==
    /\ store[name].here
    /\ \A i \in 1..Len(store[name].rows) : cols \subseteq DOMAIN store[name].rows[i]

\* The orderings of the rows S that ORDER BY allows: no row comes after a row
\* it must precede.  Rows that tie may come in any order.
OrderBy(S, Precedes(_, _)) ==
    {f \in [1..Cardinality(S) -> S] :
        /\ \A i, j \in 1..Cardinality(S) : i # j => f[i] # f[j]
        /\ \A i, j \in 1..Cardinality(S) : i < j => ~Precedes(f[j], f[i])}

MonthBefore(a, b) == a[1] < b[1] \/ (a[1] = b[1] /\ a[2] < b[2])

\* The first n rows of a result (LIMIT n).
Limit(rows, n) == IF Len(rows) <= n THEN rows ELSE SubSeq(rows, 1, n)

RECURSIVE Concat(_)
Concat(ss) == IF ss = <<>> THEN <<>> ELSE Head(ss) \o Concat(Tail(ss))

\* FROM customers c JOIN orders o ON c.customer_id = o.customer_id: a customer
\* without a matching order gives no row.
InnerJoin(customers, orders) ==
    Concat([k \in 1..Len(customers) |->
        LET c == customers[k]
            m == SelectSeq(orders, LAMBDA o : c.customer_id = o.customer_id)
        IN  [i \in 1..Len(m) |-> [c |-> c, o |-> <<m[i]>>]]])

\* FROM customers c LEFT JOIN orders o ON c.customer_id = o.customer_id: one
\* row per matching order of each customer, and one row with no order for a
\* customer without a match.  A joined row is the customer with a sequence of
\* zero or one order.
LeftJoin(customers, orders) ==
    Concat([k \in 1..Len(customers) |->
        LET c == customers[k]
            m == SelectSeq(orders, LAMBDA o : c.customer_id = o.customer_id)
        IN  IF m = <<>> THEN <<[c |-> c, o |-> <<>>]>>
            ELSE [i \in 1..Len(m) |-> [c |-> c, o |-> <<m[i]>>]]])

\* basic_stats: the row counts of the three tables and of the completed orders.
basic_stats(store) ==
    IF ~(/\ store["customers"].here
         /\ store["products"].here
         /\ HasColumns(store, "orders", {"status"})) THEN {}
    ELSE {<< [table_name |-> "Customers", count |-> Len(store["customers"].rows)],
             [table_name |-> "Products", count |-> Len(store["products"].rows)],
             [table_name |-> "Orders", count |-> Len(store["orders"].rows)],
             [table_name |-> "Completed Orders",
              count |-> Len(SelectSeq(store["orders"].rows, Completed))] >>}

\* The groups of a query that leaves out WHERE status = 'Completed'.
MonthGroupsOfAllOrders(store) ==
    LET all == store["orders"].rows
        months == {all[i].order_month : i \in 1..Len(all)}
    IN  {LET g == SelectSeq(all, LAMBDA o : o.order_month = m)
         IN  [order_month |-> m,
              revenue |-> SqlRound2(SumSeq(Amounts(g)), 1),
              order_count |-> Len(g),
              avg_order_value |-> SqlRound2(SumSeq(Amounts(g)), Len(g))]
         : m \in months}

\* SELECT order_month, ROUND(SUM(total_amount), 2), COUNT(*),
\* ROUND(AVG(total_amount), 2) FROM orders WHERE status = 'Completed'
\* GROUP BY order_month: the groups, before they are ordered.
MonthGroups(store) ==
    LET done == SelectSeq(store["orders"].rows, Completed)
        months == {done[i].order_month : i \in 1..Len(done)}
    IN  {LET g == SelectSeq(done, LAMBDA o : o.order_month = m)
         IN  [order_month |-> m,
              revenue |-> SqlRound2(SumSeq(Amounts(g)), 1),
              order_count |-> Len(g),
              avg_order_value |-> SqlRound2(SumSeq(Amounts(g)), Len(g))]
         : m \in months}

MonthColumns == {"order_month", "total_amount", "status"}

\* monthly_revenue_analysis: ... ORDER BY order_month.
monthly_revenue_analysis(store) ==
    IF ~HasColumns(store, "orders", MonthColumns) THEN {}
    ELSE OrderBy(MonthGroups(store),
                 LAMBDA a, b : MonthBefore(a.order_month, b.order_month))

\* top_revenue_months: ... ORDER BY revenue DESC LIMIT 5.
top_revenue_months(store) ==
    IF ~HasColumns(store, "orders", MonthColumns) THEN {}
    ELSE {Limit([i \in 1..Len(f) |->
                    [order_month |-> f[i].order_month, revenue |-> f[i].revenue,
                     orders |-> f[i].order_count]], 5)
          : f \in OrderBy(MonthGroups(store), LAMBDA a, b : a.revenue > b.revenue)}

\* The subquery without WHERE status = 'Completed'.
SpentOnAllOrders(store) ==
    LET all == store["orders"].rows
        ids == {all[i].customer_id : i \in 1..Len(all)}
        row(id) == [customer_id |-> id,
                    total_spent |-> SumSeq(Amounts(
                        SelectSeq(all, LAMBDA o : o.customer_id = id)))]
        pick[S \in SUBSET ids] ==
            IF S = {} THEN <<>>
            ELSE LET id == CHOOSE x \in S : \A y \in S : x <= y
                 IN  <<row(id)>> \o pick[S \ {id}]
    IN  pick[ids]

\* The subquery of customer_segmentation: SELECT customer_id, SUM(total_amount)
\* AS total_spent FROM orders WHERE status = 'Completed' GROUP BY customer_id.
SpentByCustomer(store) ==
    LET done == SelectSeq(store["orders"].rows, Completed)
        ids == {done[i].customer_id : i \in 1..Len(done)}
        row(id) == [customer_id |-> id,
                    total_spent |-> SumSeq(Amounts(
                        SelectSeq(done, LAMBDA o : o.customer_id = id)))]
        pick[S \in SUBSET ids] ==
            IF S = {} THEN <<>>
            ELSE LET id == CHOOSE x \in S : \A y \in S : x <= y
                 IN  <<row(id)>> \o pick[S \ {id}]
    IN  pick[ids]

\* customer_segmentation: customers LEFT JOIN the subquery ON customer_id,
\* GROUP BY customer_segment, COUNT(*), ROUND(AVG(total_spent or 0), 2),
\* ORDER BY avg_spent DESC.
customer_segmentation(store) ==
    IF ~(/\ HasColumns(store, "customers", {"customer_segment", "customer_id"})
         /\ HasColumns(store, "orders", {"customer_id", "total_amount", "status"}))
    THEN {}
    ELSE LET j == LeftJoin(store["customers"].rows, SpentByCustomer(store))
             segments == {j[i].c.customer_segment : i \in 1..Len(j)}
             groups == {LET g == SelectSeq(j, LAMBDA r : r.c.customer_segment = seg)
                            spent == [i \in 1..Len(g) |->
                                        IF g[i].o = <<>> THEN 0
                                        ELSE g[i].o[1].total_spent]
                        IN  [customer_segment |-> seg,
                             customer_count |-> Len(g),
                             avg_spent |-> SqlRound2(SumSeq(spent), Len(g))]
                        : seg \in segments}
         IN  OrderBy(groups, LAMBDA a, b : a.avg_spent > b.avg_spent)

\* A geographic_analysis whose ON clause leaves out o.status = 'Completed'.
geographic_analysis_all_orders(store) ==
    IF ~(/\ HasColumns(store, "customers", {"location", "customer_id"})
         /\ HasColumns(store, "orders",
                       {"order_id", "customer_id", "total_amount", "status"}))
    THEN {}
    ELSE LET j == LeftJoin(store["customers"].rows, store["orders"].rows)
             locations == {j[i].c.location : i \in 1..Len(j)}
             groups == {LET g == SelectSeq(j, LAMBDA r : r.c.location = loc)
                            matched == SelectSeq(g, LAMBDA r : r.o # <<>>)
                        IN  [location |-> loc,
                             customer_count |->
                                 Cardinality({g[i].c.customer_id : i \in 1..Len(g)}),
                             total_orders |-> Len(matched),
                             total_revenue |-> SqlRound2(SumSeq(
                                 [i \in 1..Len(matched) |->
                                     matched[i].o[1].total_amount]), 1)]
                        : loc \in locations}
         IN  OrderBy(groups, LAMBDA a, b : a.total_revenue > b.total_revenue)

\* geographic_analysis: customers c LEFT JOIN orders o ON c.customer_id =
\* o.customer_id AND o.status = 'Completed' (the orders the ON clause can match
\* are the completed ones), GROUP BY c.location, COUNT(DISTINCT c.customer_id),
\* COUNT(o.order_id), ROUND(COALESCE(SUM(o.total_amount), 0), 2),
\* ORDER BY total_revenue DESC.
geographic_analysis(store) ==
    IF ~(/\ HasColumns(store, "customers", {"location", "customer_id"})
         /\ HasColumns(store, "orders",
                       {"order_id", "customer_id", "total_amount", "status"}))
    THEN {}
    ELSE LET j == LeftJoin(store["customers"].rows,
                           SelectSeq(store["orders"].rows, Completed))
             locations == {j[i].c.location : i \in 1..Len(j)}
             groups == {LET g == SelectSeq(j, LAMBDA r : r.c.location = loc)
                            matched == SelectSeq(g, LAMBDA r : r.o # <<>>)
                        IN  [location |-> loc,
                             customer_count |->
                                 Cardinality({g[i].c.customer_id : i \in 1..Len(g)}),
                             total_orders |-> Len(matched),
                             total_revenue |-> SqlRound2(SumSeq(
                                 [i \in 1..Len(matched) |->
                                     matched[i].o[1].total_amount]), 1)]
                        : loc \in locations}
         IN  OrderBy(groups, LAMBDA a, b : a.total_revenue > b.total_revenue)

\* ------------------------------------------- SQLAnalyzer (the methods)

\* The five analyses in the order run_full_analysis calls them, and the keys
\* it files their results under.
Queries == <<"basic_stats", "monthly_revenue_analysis", "customer_segmentation",
             "geographic_analysis", "top_revenue_months">>

Keys == <<"Database Overview", "Monthly Revenue", "Customer Segments",
          "Geographic Performance", "Top Revenue Months">>

\* The results the store may give for the query of a method: none when the
\* statement fails (a table or a column it names is not there).
QueryResults(store, q) ==
    CASE q = "basic_stats" -> basic_stats(store)
      [] q = "monthly_revenue_analysis" -> monthly_revenue_analysis(store)
      [] q = "customer_segmentation" -> customer_segmentation(store)
      [] q = "geographic_analysis" -> geographic_analysis(store)
      [] q = "top_revenue_months" -> top_revenue_months(store)

\* The failures of the store itself that a read may meet: at connect, or while
\* the statement runs.
QueryFaults == {"none", "connect", "read"}

\* A run_query whose handler raises again, as the handlers of the pipeline do.
run_query_reraise(store, q, fault) ==
    IF fault = "connect" THEN {[df |-> None, open |-> 0, raised |-> TRUE]}
    ELSE IF fault = "read" \/ QueryResults(store, q) = {}
         THEN {[df |-> None, open |-> 1, raised |-> TRUE]}
    ELSE {[df |-> Table(rows), open |-> 0, raised |-> FALSE]
          : rows \in QueryResults(store, q)}

\* run_query: connect, read the result of the query, close, return the frame.
\* Any exception is caught and logged and None is returned; conn.close() is
\* not reached then, so a connection that was opened stays open.
run_query(store, q, fault) ==
    IF fault = "connect" THEN {[df |-> None, open |-> 0, raised |-> FALSE]}
    ELSE IF fault = "read" \/ QueryResults(store, q) = {}
         THEN {[df |-> None, open |-> 1, raised |-> FALSE]}
    ELSE {[df |-> Table(rows), open |-> 0, raised |-> FALSE]
          : rows \in QueryResults(store, q)}

\* ------------------------------------------------------ ECommerceVisualiser

NewVis == [customers |-> None, orders |-> None, products |-> None]

ParseDate(col, r) == [k \in DOMAIN r |-> IF k = col THEN to_datetime(r[k]) ELSE r[k]]

\* ECommerceVisualiser.load_data: connect, read customers, the completed
\* orders and products, parse the two date columns, close.  Nothing is caught:
\* a failure raises from where it happens, the frames read so far stay on the
\* instance and conn.close() is not reached.
vis_load_data(v, store, fault) ==
    LET v1 == [v EXCEPT !.customers = Table(store["customers"].rows)]
        v2 == [v1 EXCEPT !.orders =
                 Table(SelectSeq(store["orders"].rows, Completed))]
        v3 == [v2 EXCEPT !.products = Table(store["products"].rows)]
        v4 == [v3 EXCEPT !.orders.rows = MapRows(@, LAMBDA r : ParseDate("order_date", r))]
        v5 == [v4 EXCEPT !.customers.rows = MapRows(@, LAMBDA r : ParseDate("signup_date", r))]
    IN  IF fault = "connect" THEN [vis |-> v, open |-> 0, raised |-> TRUE]
        ELSE IF fault = "read" \/ ~store["customers"].here
             THEN [vis |-> v, open |-> 1, raised |-> TRUE]
        ELSE IF ~HasColumns(store, "orders", {"status"})
             THEN [vis |-> v1, open |-> 1, raised |-> TRUE]
        ELSE IF ~store["products"].here THEN [vis |-> v2, open |-> 1, raised |-> TRUE]
        ELSE IF ~HasColumns(store, "orders", {"order_date"})
             THEN [vis |-> v3, open |-> 1, raised |-> TRUE]
        ELSE IF ~HasColumns(store, "customers", {"signup_date"})
             THEN [vis |-> v4, open |-> 1, raised |-> TRUE]
        ELSE [vis |-> v5, open |-> 0, raised |-> FALSE]

\* The most connections the model lets stay open at once.
MaxConns == 2

VARIABLES
    files,      \* the three source files: "ok", "missing" or "malformed"
    etl,        \* the ECommerceETL instance: customers, products, orders
    db,         \* the relational store: its three tables and its indexes
    conns,      \* the number of open connections to the store
    runPc,      \* where run_pipeline stands
    stages,     \* the stages the latest run_pipeline entered, with their outcome
    last,       \* the latest finished call: its name, whether it raised, the
                \* warnings it logged and what it started from
    anaPc,      \* where run_full_analysis stands
    analyses,   \* the results run_full_analysis has collected, in order
    result,     \* what the latest call of an analysis method returned
    vis,        \* the ECommerceVisualiser instance: customers, orders, products
    genPc,      \* where the generator script stands
    customers,  \* the generator's customers table
    products,   \* the generator's products table
    orders,     \* the number of orders generate_orders has appended
    order,      \* the order the current pass has built, with its line items
    ordersFrame, \* the orders table generate_orders returned to the script
    disk        \* what the three files under data/ hold

vars == <<files, etl, db, conns, runPc, stages, last, anaPc, analyses, result, vis,
          genPc, customers, products, orders, order, ordersFrame, disk>>

genVars == <<genPc, customers, products, orders, order, ordersFrame>>

etlVars == <<files, disk, etl, runPc, stages>>
reportVars == <<anaPc, analyses, result, vis>>

\* More connections than MaxConns are counted as MaxConns.
Opened(n) == IF conns + n > MaxConns THEN MaxConns ELSE conns + n

FourIndexes == {
    [name |-> "idx_customer_id", tbl |-> "customers", col |-> "customer_id"],
    [name |-> "idx_product_id", tbl |-> "products", col |-> "product_id"],
    [name |-> "idx_order_date", tbl |-> "orders", col |-> "order_date"],
    [name |-> "idx_order_customer", tbl |-> "orders", col |-> "customer_id"] }

AllTablesHere(store) == \A t \in TableNames : store[t].here

Finished(op, r) ==
    [op |-> op, raised |-> r, warnings |-> {},
     fresh |-> etl = NewETL,
     reload |-> AllTablesHere(db) /\ FourIndexes \subseteq db.indexes]

NoResult == [query |-> "none", df |-> None]

NoOrder == [order_id |-> 0, customer_id |-> 0, order_date |-> Timestamp(0),
            total_amount |-> 0, status |-> "none", items |-> <<>>]

NoFiles == [n \in FileNames |-> <<>>]

NoCall == [op |-> "none", raised |-> FALSE, warnings |-> {}, fresh |-> TRUE, reload |-> FALSE]

InRun == runPc \in {"extract", "transform", "load", "summary"}
InAnalysis == anaPc \in {"running", "display"}
Busy == InRun \/ InAnalysis

\* ------------------------------------------------------ the files (Spec)

\* The generator script saves its three tables.
GenerateData ==
    /\ ~Busy
    /\ files' = [n \in FileNames |-> "ok"]
    /\ disk' = GeneratedFiles
    /\ UNCHANGED <<etl, db, conns, runPc, stages, last, reportVars, genVars>>

\* A source file is deleted or damaged between two calls.
DamageFile ==
    /\ ~Busy
    /\ \E n \in FileNames, how \in {"missing", "malformed"} :
          /\ files[n] = "ok"
          /\ files' = [files EXCEPT ![n] = how]
    /\ UNCHANGED <<disk, etl, db, conns, runPc, stages, last, reportVars, genVars>>

\* ------------------------------------------------ ECommerceETL (the calls)

\* etl = ECommerceETL()
NewInstance ==
    /\ ~Busy
    /\ etl' = NewETL
    /\ last' = Finished("__init__", FALSE)
    /\ UNCHANGED <<files, disk, db, conns, runPc, stages, reportVars, genVars>>

DoExtract ==
    LET r == extract_data(files, disk, etl)
    IN  /\ etl' = r.etl
        /\ last' = Finished("extract_data", r.raised)
        /\ UNCHANGED <<files, disk, db, conns>>

DoTransform ==
    \E now \in NowDays :
        LET r == transform_data(etl, now)
        IN  /\ etl' = r.etl
            /\ last' = [Finished("transform_data", r.raised) EXCEPT !.warnings = r.warnings]
            /\ UNCHANGED <<files, disk, db, conns>>

DoLoad ==
    \E fault \in LoadFaults :
        LET r == load_data(etl, db, fault)
        IN  /\ db' = r.db
            /\ conns' = Opened(r.open)
            /\ last' = Finished("load_data", r.raised)
            /\ UNCHANGED <<files, disk, etl>>

\* A caller calls one stage on its own.
CallExtract == ~Busy /\ DoExtract /\ UNCHANGED <<runPc, stages, reportVars, genVars>>
CallTransform == ~Busy /\ DoTransform /\ UNCHANGED <<runPc, stages, reportVars, genVars>>
CallLoad == ~Busy /\ DoLoad /\ UNCHANGED <<runPc, stages, reportVars, genVars>>

\* A run_pipeline that carries on after a stage raised.
AfterStageSwallow(stage, raised) ==
    IF stage = "extract_data" THEN "transform"
    ELSE IF stage = "transform_data" THEN "load"
    ELSE "summary"

\* run_pipeline: where control goes after a stage returned or raised.  An
\* exception of a stage is not caught by run_pipeline.
AfterStage(stage, raised) ==
    IF raised THEN "raised"
    ELSE IF stage = "extract_data" THEN "transform"
    ELSE IF stage = "transform_data" THEN "load"
    ELSE "summary"

Entered(stage) ==
    /\ stages' = Append(stages, [name |-> stage, ok |-> ~last'.raised])
    /\ runPc' = AfterStage(stage, last'.raised)

RunPipeline ==
    /\ ~Busy
    /\ runPc' = "extract"
    /\ stages' = <<>>
    /\ UNCHANGED <<files, disk, etl, db, conns, last, reportVars, genVars>>

PipelineExtract ==
    runPc = "extract" /\ DoExtract /\ Entered("extract_data") /\ UNCHANGED <<reportVars, genVars>>
PipelineTransform ==
    runPc = "transform" /\ DoTransform /\ Entered("transform_data") /\ UNCHANGED <<reportVars, genVars>>
PipelineLoad ==
    runPc = "load" /\ DoLoad /\ Entered("load_data") /\ UNCHANGED <<reportVars, genVars>>

\* _print_summary reads the three tables and prints.
PipelineSummary ==
    /\ runPc = "summary"
    /\ runPc' = "done"
    /\ UNCHANGED <<files, disk, etl, db, conns, stages, last, reportVars, genVars>>

Init ==
    /\ files \in [FileNames -> {"ok", "missing"}]
    /\ etl = NewETL
    /\ db = EmptyStore
    /\ conns = 0
    /\ runPc = "idle"
    /\ stages = <<>>
    /\ last = NoCall
    /\ anaPc = "idle"
    /\ analyses = <<>>
    /\ result = NoResult
    /\ vis = NewVis
    /\ genPc = "idle"
    /\ customers = None
    /\ products = None
    /\ orders = 0
    /\ order = NoOrder
    /\ ordersFrame = None
    /\ disk = GeneratedFiles

Next ==
    \/ GenerateData
    \/ DamageFile
    \/ NewInstance
    \/ CallExtract
    \/ CallTransform
    \/ CallLoad
    \/ RunPipeline
    \/ PipelineExtract
    \/ PipelineTransform
    \/ PipelineLoad
    \/ PipelineSummary

Spec == Init /\ [][Next]_vars

\* ---------------------------------------- the reporting layer (SpecReport)

\* A caller calls analysis method k: the method hands its query to run_query
\* and returns what run_query returns.
Analyse(k, faults) ==
    /\ ~Busy
    /\ \E fault \in faults :
         \E r \in run_query(db, Queries[k], fault) :
            /\ result' = [query |-> Queries[k], df |-> r.df]
            /\ conns' = Opened(r.open)
            /\ last' = Finished(Queries[k], r.raised)
    /\ UNCHANGED <<etlVars, db, anaPc, analyses, vis, genVars>>

CallQuery == \E k \in 1..Len(Queries) : Analyse(k, QueryFaults)

RunFullAnalysis ==
    /\ ~Busy
    /\ anaPc' = "running"
    /\ analyses' = <<>>
    /\ UNCHANGED <<etlVars, db, conns, last, result, vis, genVars>>

\* run_full_analysis evaluates the entries of its dictionary one after the
\* other; an exception of a method would leave run_full_analysis.
AnalysisStep ==
    /\ anaPc = "running"
    /\ LET k == Len(analyses) + 1
       IN  \E fault \in QueryFaults :
             \E r \in run_query(db, Queries[k], fault) :
                /\ analyses' = IF r.raised THEN analyses
                               ELSE Append(analyses,
                                      [key |-> Keys[k], query |-> Queries[k], df |-> r.df])
                /\ result' = [query |-> Queries[k], df |-> r.df]
                /\ conns' = Opened(r.open)
                /\ last' = Finished(Queries[k], r.raised)
                /\ anaPc' = IF r.raised THEN "raised"
                            ELSE IF k = Len(Queries) THEN "display" ELSE "running"
    /\ UNCHANGED <<etlVars, db, vis, genVars>>

\* The results are printed and the dictionary is returned.
AnalysisDisplay ==
    /\ anaPc = "display"
    /\ anaPc' = "returned"
    /\ UNCHANGED <<etlVars, db, conns, last, analyses, result, vis, genVars>>

VisLoadData ==
    /\ ~Busy
    /\ \E fault \in QueryFaults :
         LET r == vis_load_data(vis, db, fault)
         IN  /\ vis' = r.vis
             /\ conns' = Opened(r.open)
             /\ last' = Finished("vis_load_data", r.raised)
    /\ UNCHANGED <<etlVars, db, anaPc, analyses, result, genVars>>

\* The instances the pipeline can hand to load_data: a new one, one whose
\* extraction stopped at the products file, an extracted and a transformed one.
ReportEtlStates ==
    LET ok == [n \in FileNames |-> "ok"]
        extracted == extract_data(ok, GeneratedFiles, NewETL).etl
    IN  {NewETL, extract_data([ok EXCEPT !["products"] = "missing"], GeneratedFiles, NewETL).etl, extracted}
        \cup {transform_data(extracted, now).etl : now \in NowDays}

InitReport ==
    /\ files = [n \in FileNames |-> "ok"]
    /\ etl \in ReportEtlStates
    /\ db = EmptyStore
    /\ conns = 0
    /\ runPc = "idle"
    /\ stages = <<>>
    /\ last = NoCall
    /\ anaPc = "idle"
    /\ analyses = <<>>
    /\ result = NoResult
    /\ vis = NewVis
    /\ genPc = "idle"
    /\ customers = None
    /\ products = None
    /\ orders = 0
    /\ order = NoOrder
    /\ ordersFrame = None
    /\ disk = GeneratedFiles

NextReport ==
    \/ CallLoad
    \/ CallQuery
    \/ RunFullAnalysis
    \/ AnalysisStep
    \/ AnalysisDisplay
    \/ VisLoadData

SpecReport == InitReport /\ [][NextReport]_vars

\* ------------------------------------- the queries (SpecMonthly, SpecJoin)

\* The store after the pipeline has transformed and loaded the given rows.
StoreOf(c, p, o) ==
    LET e == [customers |-> Table(c), products |-> Table(p), orders |-> Table(o)]
        now == CHOOSE d \in NowDays : TRUE
    IN  load_data(transform_data(e, now).etl, EmptyStore, "none").db

\* The most orders in a store of SpecMonthly, and the most customers and
\* orders in a store of SpecJoin.
MaxOrders == 3
MaxJoinCustomers == 2
MaxJoinOrders == 2

\* The values the cells of the drawn tables range over.
\* Amounts in mills: SpecMonthly also draws an amount with a third decimal,
\* SpecJoin draws amounts with two decimals.
AmountDraws == {1005, 2000}
JoinAmountDraws == {1010, 2000}
OrderDayDraws == {30, 31}
CustomerIdDraws == {1, 2}
SegmentValues == {"Premium", "Basic"}
LocationValues == {"London", "Manchester"}

\* The orders tables of length n with order_id 1..n.
OrderTables(n, ids, days, amts, sts) ==
    {[i \in 1..n |-> [order_id |-> i, customer_id |-> cid[i],
                      order_date |-> CsvDate(day[i]),
                      total_amount |-> amt[i], status |-> st[i]]]
     : cid \in [1..n -> ids], day \in [1..n -> days],
       amt \in [1..n -> amts], st \in [1..n -> sts]}

\* The customers tables of length n; identifiers may repeat.
CustomerTables(n, locs, segs) ==
    {[i \in 1..n |-> [customer_id |-> cid[i], signup_date |-> CsvDate(0),
                      location |-> loc[i], customer_segment |-> seg[i]]]
     : cid \in [1..n -> CustomerIdDraws], loc \in [1..n -> locs],
       seg \in [1..n -> segs]}

QueryInit ==
    /\ files = [n \in FileNames |-> "ok"]
    /\ etl = NewETL
    /\ conns = 0
    /\ runPc = "idle"
    /\ stages = <<>>
    /\ last = NoCall
    /\ anaPc = "idle"
    /\ analyses = <<>>
    /\ result = NoResult
    /\ vis = NewVis
    /\ genPc = "idle"
    /\ customers = None
    /\ products = None
    /\ orders = 0
    /\ order = NoOrder
    /\ ordersFrame = None
    /\ disk = GeneratedFiles

InitMonthly ==
    /\ QueryInit
    /\ \E n \in 0..MaxOrders : \E o \in OrderTables(n, {1}, OrderDayDraws, AmountDraws, Statuses) :
          db = StoreOf(CustomersFile, ProductsFile, o)

CallBasicStats == Analyse(1, {"none"})
CallMonthlyRevenue == Analyse(2, {"none"})
CallCustomerSegmentation == Analyse(3, {"none"})
CallGeographic == Analyse(4, {"none"})
CallTopMonths == Analyse(5, {"none"})

NextMonthly ==
    \/ CallBasicStats
    \/ CallMonthlyRevenue
    \/ CallTopMonths

SpecMonthly == InitMonthly /\ [][NextMonthly]_vars

\* The customers tables of SpecJoin vary in location or in segment; its orders
\* are completed or pending and fall in one month.
InitJoin ==
    /\ QueryInit
    /\ \E n \in 0..MaxJoinCustomers, m \in 0..MaxJoinOrders :
         \E c \in CustomerTables(n, LocationValues, {"Basic"})
                    \cup CustomerTables(n, {"London"}, SegmentValues),
            o \in OrderTables(m, CustomerIdDraws, {30}, JoinAmountDraws,
                               {"Completed", "Pending"}) :
               db = StoreOf(c, ProductsFile, o)

NextJoin ==
    \/ CallCustomerSegmentation
    \/ CallGeographic

SpecJoin == InitJoin /\ [][NextJoin]_vars

\* The stores of SpecCross: customers that vary in identifier and location,
\* orders of two months, completed or pending, those of the first month of
\* one amount and those of the second month of the other.
InitCross ==
    /\ QueryInit
    /\ \E n \in 0..MaxJoinCustomers, m \in 0..MaxJoinOrders :
         \E c \in CustomerTables(n, LocationValues, {"Basic"}),
            o \in OrderTables(m, CustomerIdDraws, OrderDayDraws, JoinAmountDraws,
                               {"Completed", "Pending"}) :
               /\ \A i \in 1..m :
                     (o[i].order_date.day = CHOOSE d \in OrderDayDraws :
                                               \A e \in OrderDayDraws : d <= e)
                       <=> (o[i].total_amount = CHOOSE a \in JoinAmountDraws :
                                                   \A b \in JoinAmountDraws : a <= b)
               /\ db = StoreOf(c, ProductsFile, o)

NextCross ==
    \/ CallBasicStats
    \/ CallMonthlyRevenue
    \/ CallGeographic

SpecCross == InitCross /\ [][NextCross]_vars

\* ------------------------------------------------- the generator (SpecGen)

GenerateCustomers ==
    /\ genPc = "idle"
    /\ customers' \in {Table(rows) : rows \in generate_customers(NumCustomers)}
    /\ genPc' = "products"
    /\ UNCHANGED <<etlVars, db, conns, last, reportVars, products, orders, order, ordersFrame>>

GenerateProducts ==
    /\ genPc = "products"
    /\ products' \in {Table(rows) : rows \in generate_products(NumProducts)}
    /\ genPc' = "orders"
    /\ UNCHANGED <<etlVars, db, conns, last, reportVars, customers, orders, order, ordersFrame>>

\* One pass of the loop of generate_orders builds the next order from its
\* draws, or raises.
GenerateOrder ==
    /\ genPc = "orders"
    /\ order = NoOrder
    /\ \/ /\ order' \in generate_order(customers.rows, products.rows, orders + 1)
          /\ UNCHANGED genPc
       \/ /\ generate_order_raises(products.rows)
          /\ genPc' = "raised"
          /\ UNCHANGED order
    /\ UNCHANGED <<etlVars, db, conns, last, reportVars, customers, products, orders, ordersFrame>>

\* The order is appended to the list, of which the model keeps the length;
\* after the last pass the script goes on to save.
AppendOrder ==
    /\ genPc = "orders"
    /\ order # NoOrder
    /\ orders' = orders + 1
    /\ order' = NoOrder
    /\ genPc' = IF orders + 1 = NumOrders THEN "save" ELSE "orders"
    /\ UNCHANGED <<etlVars, db, conns, last, reportVars, customers, products, ordersFrame>>

\* The script saves the three tables to data/: customers and orders as CSV,
\* products as JSON.
SaveData ==
    /\ genPc = "save"
    /\ disk' = [customers |-> to_csv(customers.rows),
                products |-> to_json(products.rows),
                orders |-> to_csv(ordersFrame.rows)]
    /\ files' = [n \in FileNames |-> "ok"]
    /\ genPc' = "done"
    /\ last' = Finished("save", FALSE)
    /\ UNCHANGED <<etl, runPc, stages, db, conns, reportVars,
                   customers, products, orders, order, ordersFrame>>

\* SpecGen follows the three generator functions up to the return of
\* generate_orders and keeps the number of the appended orders, not the rows.
InitGen ==
    /\ files = [n \in FileNames |-> "missing"]
    /\ etl = NewETL
    /\ db = EmptyStore
    /\ conns = 0
    /\ runPc = "idle"
    /\ stages = <<>>
    /\ last = NoCall
    /\ anaPc = "idle"
    /\ analyses = <<>>
    /\ result = NoResult
    /\ vis = NewVis
    /\ genPc = "idle"
    /\ customers = None
    /\ products = None
    /\ orders = 0
    /\ order = NoOrder
    /\ ordersFrame = None
    /\ disk = NoFiles

NextGen ==
    \/ GenerateCustomers
    \/ GenerateProducts
    \/ GenerateOrder
    \/ AppendOrder

SpecGen == InitGen /\ [][NextGen]_vars

\* ------------------------------------- save and extract (SpecRoundTrip)

\* The script has its three tables and is about to save them; the pipeline
\* instance is new and data/ is empty.
InitRoundTrip ==
    /\ files = [n \in FileNames |-> "missing"]
    /\ disk = NoFiles
    /\ etl = NewETL
    /\ db = EmptyStore
    /\ conns = 0
    /\ runPc = "idle"
    /\ stages = <<>>
    /\ last = NoCall
    /\ anaPc = "idle"
    /\ analyses = <<>>
    /\ result = NoResult
    /\ vis = NewVis
    /\ genPc = "save"
    /\ customers \in {Table(rows) : rows \in generate_customers(NumCustomers)}
    /\ products \in {Table(rows) : rows \in generate_products(NumProducts)}
    /\ orders = SavedOrders
    /\ order = NoOrder
    /\ ordersFrame \in {Table(rows) :
                            rows \in OrderFrames(customers.rows, products.rows, SavedOrders)}

NextRoundTrip ==
    \/ SaveData
    \/ CallExtract
    \/ NewInstance

SpecRoundTrip == InitRoundTrip /\ [][NextRoundTrip]_vars

\* ------------------------------- files with anomalies (SpecTransform)

\* The most rows of a file of SpecTransform.
MaxRawRows == 2

\* The rows the files of SpecTransform are made of: rows of the generated
\* files, whole or with a missing cell; a row may come twice in a file.
RawCustomerRows ==
    {CustomersFile[1], CustomersFile[2], [CustomersFile[1] EXCEPT !.signup_date = NullText]}
RawOrderRows ==
    {OrdersFile[1], [OrdersFile[2] EXCEPT !.order_date = NullText],
     [OrdersFile[2] EXCEPT !.total_amount = NaN]}
RawProductRows == {ProductsFile[1], [ProductsFile[2] EXCEPT !.price = NaN]}

RawFiles(rows) == UNION {[1..n -> rows] : n \in 1..MaxRawRows}

\* The files hold at least one row each, and products.json at least one
\* price that is a number, so that its price column is a column of numbers.
InitTransform ==
    /\ files = [n \in FileNames |-> "ok"]
    /\ \E c \in RawFiles(RawCustomerRows), o \in RawFiles(RawOrderRows),
          p \in RawFiles(RawProductRows) :
            /\ \E i \in 1..Len(p) : p[i].price # NaN
            /\ disk = [customers |-> c, orders |-> o, products |-> p]
    /\ etl = NewETL
    /\ db = EmptyStore
    /\ conns = 0
    /\ runPc = "idle"
    /\ stages = <<>>
    /\ last = NoCall
    /\ anaPc = "idle"
    /\ analyses = <<>>
    /\ result = NoResult
    /\ vis = NewVis
    /\ genPc = "idle"
    /\ customers = None
    /\ products = None
    /\ orders = 0
    /\ order = NoOrder
    /\ ordersFrame = None

NextTransform ==
    \/ NewInstance
    \/ CallExtract
    \/ CallTransform

SpecTransform == InitTransform /\ [][NextTransform]_vars

\* ------------------------------------------------------------------ claims

StageOrder == <<"extract_data", "transform_data", "load_data">>

StagesInOrder ==
    /\ Len(stages) <= 3
    /\ \A i \in 1..Len(stages) : stages[i].name = StageOrder[i]
    /\ \A i \in 1..(Len(stages) - 1) : stages[i].ok
    /\ runPc = "extract" => stages = <<>>
    /\ runPc = "transform" => Len(stages) = 1 /\ stages[1].ok
    /\ runPc = "load" => Len(stages) = 2 /\ stages[2].ok
    /\ runPc \in {"summary", "done"} => Len(stages) = 3 /\ stages[3].ok
    /\ runPc = "raised" => stages # <<>> /\ ~stages[Len(stages)].ok

ExtractFailureStops ==
    (runPc = "extract" /\ files["products"] = "missing")
        => \/ UNCHANGED vars
           \/ /\ runPc' = "raised"
              /\ stages' = <<[name |-> "extract_data", ok |-> FALSE]>>
              /\ db' = db

RaisedRunIsOver ==
    runPc = "raised"
        => \/ runPc' = "raised" /\ stages' = stages
           \/ runPc' = "extract" /\ stages' = <<>>

\* C1: run_pipeline enters extract_data, transform_data and load_data in that
\* order, each only after the one before it returned without raising; when the
\* products file is missing, the extract stage raises out of run_pipeline, no
\* later stage of that run is entered and the step leaves the store as it was.
C1_PipelineOrder ==
    /\ []StagesInOrder
    /\ [][ExtractFailureStops]_vars
    /\ [][RaisedRunIsOver]_vars

C1_Witness ==
    /\ runPc = "raised"
    /\ stages = <<[name |-> "extract_data", ok |-> FALSE]>>
    /\ files = [n \in FileNames |-> IF n = "products" THEN "missing" ELSE "ok"]
    /\ AllTablesHere(db)

LoadedOk == last.op = "load_data" /\ ~last.raised

\* C2: after a load_data that did not raise, each table of the store holds
\* exactly the rows of the in-memory table as to_sql writes them, whatever the
\* store held before, and loading the same tables once more leaves the store
\* as it is.
C2_LoadReplaces ==
    LoadedOk =>
        /\ \A t \in TableNames : db[t] = Table(MapRows(etl[t].rows, SqlRow))
        /\ load_data(etl, db, "none").db = db

C2_Witness ==
    /\ LoadedOk
    /\ last.reload
    /\ \E i \in 1..Len(db["customers"].rows) :
          "days_since_signup" \in DOMAIN db["customers"].rows[i]

\* C3: after a load_data that did not raise, the four indexes exist on the
\* tables the store now holds, also when the load replaced tables that had
\* the indexes.
C3_IndexesAfterLoad ==
    LoadedOk => AllTablesHere(db) /\ FourIndexes \subseteq db.indexes

C3_Witness == LoadedOk /\ last.reload /\ db.indexes = FourIndexes

\* C4: an extract_data on a new instance either loads all three tables or
\* raises and leaves the instance holding none of them.
C4_NoPartialExtraction ==
    (last.op = "extract_data" /\ last.fresh) =>
        IF last.raised THEN etl = NewETL
        ELSE \A t \in TableNames : etl[t].here

\* C5: run_query never raises and gives None for a query that failed;
\* run_full_analysis runs the five analyses in their fixed order whatever
\* failed before, and returns five entries, each a table the store gives for
\* that query or None.
C5_QueryFailureIsolated ==
    /\ anaPc # "raised"
    /\ last.op \in {Queries[k] : k \in 1..Len(Queries)} => ~last.raised
    /\ Len(analyses) <= Len(Queries)
    /\ anaPc \in {"display", "returned"} => Len(analyses) = 5
    /\ \A i \in 1..Len(analyses) :
          /\ analyses[i].key = Keys[i]
          /\ analyses[i].query = Queries[i]
          /\ \/ analyses[i].df = None
             \/ /\ analyses[i].df.here
                /\ analyses[i].df.rows \in QueryResults(db, Queries[i])
          /\ QueryResults(db, Queries[i]) = {} => analyses[i].df = None

C5_Witness ==
    /\ anaPc = "returned"
    /\ analyses[1].df = None
    /\ analyses[2].df = None
    /\ analyses[3].df.here
    /\ analyses[4].df = None
    /\ analyses[5].df.here

\* C6: once a database interaction has ended, the connection it opened is
\* closed, so between operations no connection is open.
C6_ConnectionsClosed == conns = 0

ProductIds == {products.rows[k].product_id : k \in 1..Len(products.rows)}

ItemAmount(item) ==
    LET p == CHOOSE q \in {products.rows[k] : k \in 1..Len(products.rows)} :
                 q.product_id = item.product_id
    IN  p.price * item.quantity

\* C10: every order generate_orders appends has between 1 and 5 line items,
\* its line items are pairwise distinct products of the product table, each
\* quantity is 1, 2 or 3, and total_amount is the sum of price times quantity
\* over the line items, rounded to two decimals.
C10_OrderTotals ==
    order # NoOrder =>
        /\ order.order_id = orders + 1
        /\ Len(order.items) \in 1..5
        /\ \A i, j \in 1..Len(order.items) :
              i # j => order.items[i].product_id # order.items[j].product_id
        /\ \A i \in 1..Len(order.items) :
              /\ order.items[i].product_id \in ProductIds
              /\ order.items[i].quantity \in {1, 2, 3}
        /\ order.total_amount =
              PyRound2(SumSeq([i \in 1..Len(order.items) |-> ItemAmount(order.items[i])]), 1)

C10_Witness ==
    /\ orders = NumOrders - 1
    /\ Len(order.items) = 2
    /\ order.items[1].quantity = 3
    /\ order.items[2].quantity = 1
    /\ products.rows[1].price # products.rows[2].price

DoneOrders == SelectSeq(db["orders"].rows, Completed)

Abs(x) == IF x < 0 THEN -x ELSE x

Returned(q) == result.query = q /\ result.df.here

\* C7: monthly_revenue_analysis returns one row for each order_month that has
\* a completed order and no other row, in ascending month order; the revenues
\* of its rows add up to the total_amount of the completed orders, to within
\* half a cent for each row, and its order counts add up to the number of
\* completed orders.
C7_MonthlyRevenue ==
    Returned("monthly_revenue_analysis") =>
        LET rows == result.df.rows
            months == {DoneOrders[i].order_month : i \in 1..Len(DoneOrders)}
        IN  /\ Len(rows) = Cardinality(months)
            /\ {rows[i].order_month : i \in 1..Len(rows)} = months
            /\ \A i, j \in 1..Len(rows) :
                  i < j => MonthBefore(rows[i].order_month, rows[j].order_month)
            /\ Abs(SumSeq([i \in 1..Len(rows) |-> rows[i].revenue])
                   - SumSeq(Amounts(DoneOrders))) <= 5 * Len(rows)
            /\ SumSeq([i \in 1..Len(rows) |-> rows[i].order_count]) = Len(DoneOrders)

C7_Witness ==
    /\ Returned("monthly_revenue_analysis")
    /\ Len(result.df.rows) = 2
    /\ result.df.rows[1].revenue # SumSeq(Amounts(
           SelectSeq(DoneOrders, LAMBDA o : o.order_month = result.df.rows[1].order_month)))
    /\ \E i \in 1..Len(db["orders"].rows) : db["orders"].rows[i].status = "Pending"

CustomersAt(loc) == SelectSeq(db["customers"].rows, LAMBDA c : c.location = loc)

HasDoneOrder(c) == \E i \in 1..Len(DoneOrders) : DoneOrders[i].customer_id = c.customer_id

\* C8: geographic_analysis returns one row for each location that has a
\* customer; its customer_count is the number of distinct customer identifiers
\* of the location, whatever their orders; when no customer of the location
\* has a completed order, total_revenue and total_orders are 0.
C8_GeographicKeepsCustomers ==
    Returned("geographic_analysis") =>
        LET rows == result.df.rows
            custs == db["customers"].rows
            locations == {custs[i].location : i \in 1..Len(custs)}
        IN  /\ Len(rows) = Cardinality(locations)
            /\ {rows[i].location : i \in 1..Len(rows)} = locations
            /\ \A i \in 1..Len(rows) :
                  LET here == CustomersAt(rows[i].location)
                  IN  /\ rows[i].customer_count =
                            Cardinality({here[k].customer_id : k \in 1..Len(here)})
                      /\ (\A k \in 1..Len(here) : ~HasDoneOrder(here[k]))
                            => rows[i].total_revenue = 0 /\ rows[i].total_orders = 0

C8_Witness ==
    /\ Returned("geographic_analysis")
    /\ \E i, j \in 1..Len(result.df.rows) :
          /\ result.df.rows[i].customer_count = 1
          /\ result.df.rows[i].total_orders = 2
          /\ result.df.rows[j].customer_count = 1
          /\ result.df.rows[j].total_revenue = 0

CustomersIn(seg) == SelectSeq(db["customers"].rows, LAMBDA c : c.customer_segment = seg)

SpentBy(id) == SumSeq(Amounts(SelectSeq(DoneOrders, LAMBDA o : o.customer_id = id)))

DescendingAvgSpent(rows) ==
    \A i, j \in 1..Len(rows) : i < j => rows[i].avg_spent >= rows[j].avg_spent

\* C9 as stated: customer_count is the number of customers of the segment and
\* avg_spent is exactly the total_amount of the completed orders of those
\* customers divided by that count; rows in descending avg_spent.
C9_AsStated ==
    Returned("customer_segmentation") =>
        LET rows == result.df.rows
        IN  /\ DescendingAvgSpent(rows)
            /\ \A i \in 1..Len(rows) :
                  LET in == CustomersIn(rows[i].customer_segment)
                  IN  /\ rows[i].customer_count = Len(in)
                      /\ rows[i].avg_spent * rows[i].customer_count =
                            SumSeq([k \in 1..Len(in) |-> SpentBy(in[k].customer_id)])

\* C9: customer_segmentation returns one row for each segment that has a
\* customer; customer_count is the number of customer rows of the segment and
\* avg_spent is the sum, over those rows, of the total_amount of the completed
\* orders of the row's customer_id, divided by that count and rounded to two
\* decimals; a row without a completed order adds one to the count and nothing
\* to the sum; rows in descending avg_spent.
C9_SegmentAverages ==
    Returned("customer_segmentation") =>
        LET rows == result.df.rows
            custs == db["customers"].rows
            segments == {custs[i].customer_segment : i \in 1..Len(custs)}
        IN  /\ Len(rows) = Cardinality(segments)
            /\ {rows[i].customer_segment : i \in 1..Len(rows)} = segments
            /\ DescendingAvgSpent(rows)
            /\ \A i \in 1..Len(rows) :
                  LET in == CustomersIn(rows[i].customer_segment)
                  IN  /\ rows[i].customer_count = Len(in)
                      /\ rows[i].avg_spent =
                            SqlRound2(SumSeq([k \in 1..Len(in) |-> SpentBy(in[k].customer_id)]),
                                      Len(in))

C9_Witness ==
    /\ Returned("customer_segmentation")
    /\ \E i \in 1..Len(result.df.rows) :
          LET in == CustomersIn(result.df.rows[i].customer_segment)
          IN  /\ result.df.rows[i].customer_count = 2
              /\ result.df.rows[i].avg_spent = 510
              /\ in[1].customer_id # in[2].customer_id
              /\ \E k \in 1..2 : ~HasDoneOrder(in[k])

\* C11: in every product generate_products returns, cost is 0.6 times the
\* stored price, rounded to two decimals, and cost is below price.
C11_CostOfPrice ==
    products.here =>
        \A i \in 1..Len(products.rows) :
            /\ products.rows[i].cost = PyRound2(products.rows[i].price * 6, 10)
            /\ products.rows[i].cost < products.rows[i].price

CustomerIds == {customers.rows[k].customer_id : k \in 1..Len(customers.rows)}

\* C12: asked for NumCustomers, NumProducts and NumOrders rows, the generator
\* produces the three tables (no pass of its loop raises) with exactly that
\* many rows, identifiers 1, 2, ... in each table, every order of a generated
\* customer and every status one of Completed, Pending, Cancelled.
C12_RequestedCounts ==
    /\ genPc # "raised"
    /\ customers.here =>
          /\ Len(customers.rows) = NumCustomers
          /\ \A i \in 1..NumCustomers : customers.rows[i].customer_id = i
    /\ products.here =>
          /\ Len(products.rows) = NumProducts
          /\ \A i \in 1..NumProducts : products.rows[i].product_id = i
    /\ order # NoOrder =>
          /\ order.order_id = orders + 1
          /\ order.customer_id \in CustomerIds
          /\ order.status \in {"Completed", "Pending", "Cancelled"}
    /\ orders <= NumOrders
    /\ genPc \in {"save", "done"} => orders = NumOrders

Generated(t) ==
    IF t = "customers" THEN customers ELSE IF t = "products" THEN products ELSE ordersFrame

DerivedColumns(t) ==
    IF t = "customers" THEN {"days_since_signup"}
    ELSE IF t = "orders" THEN {"order_month", "order_year"}
    ELSE {"profit_margin"}

\* The derived fields of a row as the claim gives them, for a row without a
\* missing date, price or cost.
DerivedAsStated(t, r) ==
    IF t = "customers"
    THEN IsNullDate(r.signup_date)
           \/ \E now \in NowDays : r.days_since_signup = now - r.signup_date.day
    ELSE IF t = "orders"
    THEN IsNullDate(r.order_date)
           \/ /\ r.order_month = <<2023, MonthOf(r.order_date.day)>>
              /\ r.order_year = 2023
    ELSE r.price = NaN \/ r.cost = NaN
           \/ /\ 2 * (r.profit_margin * r.price - (r.price - r.cost) * 10000) <= r.price
              /\ 2 * ((r.price - r.cost) * 10000 - r.profit_margin * r.price) <= r.price

\* What a transform_data step on an instance that holds its three tables does.
Enriches ==
    /\ ~last'.raised
    /\ \A t \in TableNames :
          /\ etl'[t].here
          /\ Len(etl'[t].rows) = Len(etl[t].rows)
          /\ \A i \in 1..Len(etl[t].rows) :
                LET old == etl[t].rows[i]
                    new == etl'[t].rows[i]
                IN  /\ DOMAIN new = DOMAIN old \cup DerivedColumns(t)
                    /\ \A k \in DOMAIN old \ (DateColumns \cup DerivedColumns(t)) :
                          new[k] = old[k]
                    /\ \A k \in DOMAIN old \cap DateColumns :
                          /\ IsNullDate(new[k]) = IsNullDate(old[k])
                          /\ new[k].day = old[k].day
                    /\ DerivedAsStated(t, new)
    /\ ("customer_dupes" \in last'.warnings) = (Duplicates(etl.customers.rows) > 0)
    /\ \A t \in TableNames :
          (\E i \in 1..Len(etl[t].rows) :
              \E k \in DOMAIN etl[t].rows[i] : IsNull(k, etl[t].rows[i][k]))
            => (t \o "_missing") \in last'.warnings

CustomersKeyed ==
    LET custs == db["customers"].rows
    IN  /\ \A i, j \in 1..Len(custs) :
              i # j => custs[i].customer_id # custs[j].customer_id
        /\ \A i \in 1..Len(DoneOrders) :
              \E j \in 1..Len(custs) : custs[j].customer_id = DoneOrders[i].customer_id

\* What method q gives on the store: what the latest call returned when it
\* was a call of q, and what the store gives for its query otherwise.
ResultsOf(q) == IF Returned(q) THEN {result.df.rows} ELSE QueryResults(db, q)

CrossConsistent(geo, monthly, stats) ==
    /\ Abs(SumSeq([i \in 1..Len(geo) |-> geo[i].total_revenue])
           - SumSeq([i \in 1..Len(monthly) |-> monthly[i].revenue]))
          <= 5 * (Len(geo) + Len(monthly))
    /\ \E i \in 1..Len(stats) :
          /\ stats[i].table_name = "Completed Orders"
          /\ stats[i].count = SumSeq([k \in 1..Len(geo) |-> geo[k].total_orders])

\* C15: on a store where customer_id is unique in customers and every
\* completed order is an order of an existing customer, the total_revenue of
\* the rows of geographic_analysis adds up to the revenue of the rows of
\* monthly_revenue_analysis, within half a cent for each row, and the
\* total_orders of the locations add up to the Completed Orders count of
\* basic_stats.
C15_CrossQuery ==
    (/\ CustomersKeyed
     /\ \E q \in {"basic_stats", "monthly_revenue_analysis", "geographic_analysis"} :
           Returned(q))
        => \A geo \in ResultsOf("geographic_analysis"),
              monthly \in ResultsOf("monthly_revenue_analysis"),
              stats \in ResultsOf("basic_stats") :
                 CrossConsistent(geo, monthly, stats)

C15_Witness ==
    /\ CustomersKeyed
    /\ Returned("geographic_analysis")
    /\ Len(result.df.rows) = 2
    /\ result.df.rows[1].total_orders = 1
    /\ result.df.rows[2].total_orders = 1
    /\ result.df.rows[1].total_revenue # result.df.rows[2].total_revenue
    /\ \E m \in monthly_revenue_analysis(db) : Len(m) = 2

====
